---- MODULE Spec2Model ----
(***************************************************************************)
(* Model of the Snakebite community probe scripts:                         *)
(*   scripts/validate.py   sanitize_error, validate_row, main              *)
(*   scripts/aggregate.py  iter_rows, err_class, pct, main                 *)
(*                                                                         *)
(* Python strings are sequences of one-character strings, JSON values are  *)
(* tagged records, JSON objects are functions from keys to JSON values.    *)
(***************************************************************************)
EXTENDS Integers, Sequences, FiniteSets, TLC

(***************************************************************************)
(* Bounds of the explored inputs.                                          *)
(***************************************************************************)
MaxStrLen == 3
MaxPasses == 2
MaxLines == 3
MaxAggLines == 2
MaxErrLines == 4

(***************************************************************************)
(* Strings.                                                                *)
(***************************************************************************)
K_model == <<"m", "o", "d", "e", "l">>
K_sha256 == <<"s", "h", "a", "2", "5", "6">>
K_syntax_valid_before == <<"s", "y", "n", "t", "a", "x", "_", "v", "a", "l", "i", "d", "_", "b", "e", "f", "o", "r", "e">>
K_syntax_valid_after == <<"s", "y", "n", "t", "a", "x", "_", "v", "a", "l", "i", "d", "_", "a", "f", "t", "e", "r">>
K_fix_count == <<"f", "i", "x", "_", "c", "o", "u", "n", "t">>
K_error_before == <<"e", "r", "r", "o", "r", "_", "b", "e", "f", "o", "r", "e">>
K_error_after == <<"e", "r", "r", "o", "r", "_", "a", "f", "t", "e", "r">>
K_error == <<"e", "r", "r", "o", "r">>
K_source == <<"s", "o", "u", "r", "c", "e">>
K_code == <<"c", "o", "d", "e">>
K_prompt == <<"p", "r", "o", "m", "p", "t">>
K_messages == <<"m", "e", "s", "s", "a", "g", "e", "s">>
K_completion == <<"c", "o", "m", "p", "l", "e", "t", "i", "o", "n">>
K_content == <<"c", "o", "n", "t", "e", "n", "t">>
K_input == <<"i", "n", "p", "u", "t">>
K_output == <<"o", "u", "t", "p", "u", "t">>
K_Code == <<"C", "o", "d", "e">>
K_extra_field == <<"e", "x", "t", "r", "a", "_", "f", "i", "e", "l", "d">>
S_unknown == <<"u", "n", "k", "n", "o", "w", "n">>
S_IndentationError == <<"I", "n", "d", "e", "n", "t", "a", "t", "i", "o", "n", "E", "r", "r", "o", "r">>
S_SyntaxError == <<"S", "y", "n", "t", "a", "x", "E", "r", "r", "o", "r">>
S_TabError == <<"T", "a", "b", "E", "r", "r", "o", "r">>
S_EOL == <<"E", "O", "L", " ", "w", "h", "i", "l", "e", " ", "s", "c", "a", "n", "n", "i", "n", "g">>
S_EOF == <<"u", "n", "e", "x", "p", "e", "c", "t", "e", "d", " ", "E", "O", "F">>
S_path == <<"<", "p", "a", "t", "h", ">">>
S_True == <<"T", "r", "u", "e">>
S_False == <<"F", "a", "l", "s", "e">>

\* The one character U+2026 that sanitize_error appends after truncation.
Ellipsis == "U+2026"

\* Characters that \s and str.strip() treat as whitespace.
Whitespace == {" ", "\t", "\n", "\r", "\f"}

UpperCase == <<"A", "B", "C", "D", "E", "F", "G", "H", "I", "J", "K", "L", "M", "N", "O", "P", "Q", "R", "S", "T", "U", "V", "W", "X", "Y", "Z">>
LowerCase == <<"a", "b", "c", "d", "e", "f", "g", "h", "i", "j", "k", "l", "m", "n", "o", "p", "q", "r", "s", "t", "u", "v", "w", "x", "y", "z">>

\* str.lower(), character by character.
LowerChar(c) ==
    IF \E n \in 1..Len(UpperCase) : UpperCase[n] = c
    THEN LowerCase[CHOOSE n \in 1..Len(UpperCase) : UpperCase[n] = c]
    ELSE c

Lower(s) == [n \in 1..Len(s) |-> LowerChar(s[n])]

\* str.strip(): drop leading and trailing whitespace.
Strip(s) ==
    LET keep == {n \in 1..Len(s) : s[n] \notin Whitespace}
    IN  IF keep = {} THEN <<>>
        ELSE SubSeq(s, CHOOSE a \in keep : \A b \in keep : a <= b,
                       CHOOSE a \in keep : \A b \in keep : a >= b)

\* Python's `sub in s`.
Contains(s, sub) ==
    \E n \in 0..(Len(s) - Len(sub)) : SubSeq(s, n + 1, n + Len(sub)) = sub

\* All sequences over S of length at most n.
SeqsUpTo(S, n) == UNION {[1..m -> S] : m \in 0..n}

\* A string of n copies of c.
Fill(c, n) == [m \in 1..n |-> c]

(***************************************************************************)
(* JSON values, as json.loads produces them.                               *)
(***************************************************************************)
None == [k |-> "null"]
JBool(b) == [k |-> "bool", b |-> b]
JInt(n) == [k |-> "int", n |-> n]
\* A float, held in tenths: JFloat(15) is 1.5.
JFloat(t) == [k |-> "float", tenths |-> t]
JStr(s) == [k |-> "str", s |-> s]
JArr(items) == [k |-> "arr", items |-> items]
JObj(r) == [k |-> "obj", row |-> r]

\* dict.get(key) with the default None.
Get(r, key) == IF key \in DOMAIN r THEN r[key] ELSE None

\* isinstance(v, str), isinstance(v, bool), isinstance(v, int): in Python
\* bool is a subclass of int.
IsStr(v) == v.k = "str"
IsBool(v) == v.k = "bool"
IsInt(v) == v.k \in {"int", "bool"}

\* The integer an int (or bool) compares as.
IntValue(v) == IF v.k = "bool" THEN (IF v.b THEN 1 ELSE 0) ELSE v.n

(***************************************************************************)
(* Python conversions used by aggregate.py.                                *)
(***************************************************************************)
Digits == <<"0", "1", "2", "3", "4", "5", "6", "7", "8", "9">>

\* str(n) for an integer n.
RECURSIVE NatStr(_)
NatStr(n) == IF n < 10 THEN <<Digits[n + 1]>> ELSE NatStr(n \div 10) \o <<Digits[(n % 10) + 1]>>

IntStr(n) == IF n < 0 THEN <<"-">> \o NatStr(0 - n) ELSE NatStr(n)

\* bool(v): the values Python treats as false are None, False, 0, 0.0 and
\* the empty string, list and dict.
Truthy(v) ==
    CASE v.k = "null" -> FALSE
      [] v.k = "bool" -> v.b
      [] v.k = "int" -> v.n # 0
      [] v.k = "float" -> v.tenths # 0
      [] v.k = "str" -> v.s # <<>>
      [] v.k = "arr" -> v.items # <<>>
      [] v.k = "obj" -> DOMAIN v.row # {}

\* a or b
Or(a, b) == IF Truthy(a) THEN a ELSE b

\* str(v); repr(v) for the items of a list.
RECURSIVE PyStr(_)
RECURSIVE PyJoin(_)
PyRepr(v) == IF v.k = "str" THEN <<"'">> \o v.s \o <<"'">> ELSE PyStr(v)
PyJoin(items) ==
    IF items = <<>> THEN <<>>
    ELSE IF Len(items) = 1 THEN PyRepr(items[1])
    ELSE PyRepr(items[1]) \o <<",", " ">> \o PyJoin(Tail(items))
PyStr(v) ==
    CASE v.k = "null" -> <<"N", "o", "n", "e">>
      [] v.k = "bool" -> IF v.b THEN S_True ELSE S_False
      [] v.k = "int" -> IntStr(v.n)
      [] v.k = "float" -> (IF v.tenths < 0 THEN <<"-">> ELSE <<>>)
                          \o LET a == IF v.tenths < 0 THEN 0 - v.tenths ELSE v.tenths
                             IN  NatStr(a \div 10) \o <<".">> \o <<Digits[(a % 10) + 1]>>
      [] v.k = "str" -> v.s
      [] v.k = "arr" -> <<"[">> \o PyJoin(v.items) \o <<"]">>

\* The value of a string of decimal digits.
RECURSIVE DigitsValue(_)
DigitsValue(s) ==
    IF s = <<>> THEN 0
    ELSE 10 * DigitsValue(SubSeq(s, 1, Len(s) - 1))
         + ((CHOOSE n \in 1..10 : Digits[n] = s[Len(s)]) - 1)

IsDigits(s) == s # <<>> /\ \A n \in 1..Len(s) : \E d \in 1..10 : Digits[d] = s[n]

\* int(v): the integer, or the exception raised.  A string must be an
\* optionally signed run of digits, surrounding whitespace allowed.
PyInt(v) ==
    CASE v.k = "int" -> [raised |-> FALSE, n |-> v.n]
      [] v.k = "bool" -> [raised |-> FALSE, n |-> IF v.b THEN 1 ELSE 0]
      [] v.k = "float" -> [raised |-> FALSE,
                           n |-> IF v.tenths < 0 THEN 0 - ((0 - v.tenths) \div 10) ELSE v.tenths \div 10]
      [] v.k = "str" ->
            LET t == Strip(v.s)
                signed == t # <<>> /\ t[1] \in {"+", "-"}
                body == IF signed THEN Tail(t) ELSE t
            IN  IF IsDigits(body)
                THEN [raised |-> FALSE,
                      n |-> IF signed /\ t[1] = "-" THEN 0 - DigitsValue(body) ELSE DigitsValue(body)]
                ELSE [raised |-> TRUE, n |-> 0]
      [] OTHER -> [raised |-> TRUE, n |-> 0]

(***************************************************************************)
(* validate.py                                                             *)
(***************************************************************************)
BANNED_KEYS == {K_source, K_code, K_prompt, K_messages, K_completion, K_content, K_input, K_output}

MaxErrorLen == 2000
Sha256Len == 64
HexLower == {"a", "b", "c", "d", "e", "f", "0", "1", "2", "3", "4", "5", "6", "7", "8", "9"}

\* The character class [^\s:"] of PATH_RE.
PathChar(c) == c \notin (Whitespace \cup {":", "\""})

\* PATH_RE.search(s, pos): the leftmost match of (/[^\s:"]+)+ at or after
\* pos, as <<start, end>>, or <<0, 0>>.  A match starts at a "/" followed by
\* a class character; the greedy + takes the whole run of class characters
\* ("/" is one of them), after which the group cannot repeat.
PathSearch(s, pos) ==
    LET starts == {a \in pos..(Len(s) - 1) : s[a] = "/" /\ PathChar(s[a + 1])}
    IN  IF starts = {} THEN <<0, 0>>
        ELSE LET a == CHOOSE x \in starts : \A y \in starts : x <= y
                 stops == {b \in (a + 1)..Len(s) : ~PathChar(s[b])}
                 e == IF stops = {} THEN Len(s)
                      ELSE (CHOOSE x \in stops : \A y \in stops : x <= y) - 1
             IN  <<a, e>>

\* repl: p.split("/")[-1] of the matched text, behind the placeholder.
Repl(p) ==
    LET slashes == {n \in 1..Len(p) : p[n] = "/"}
        last == CHOOSE x \in slashes : \A y \in slashes : x >= y
    IN  S_path \o <<"/">> \o SubSeq(p, last + 1, Len(p))

\* PATH_RE.sub(repl, s), from position pos on.
RECURSIVE PathSub(_, _)
PathSub(s, pos) ==
    LET m == PathSearch(s, pos)
    IN  IF m = <<0, 0>> THEN SubSeq(s, pos, Len(s))
        ELSE SubSeq(s, pos, m[1] - 1) \o Repl(SubSeq(s, m[1], m[2])) \o PathSub(s, m[2] + 1)

sanitize_error(s) ==
    LET t == PathSub(s, 1)
    IN  IF Len(t) > MaxErrorLen THEN SubSeq(t, 1, MaxErrorLen) \o <<Ellipsis>> ELSE t

Raise(msg, r) == [raised |-> TRUE, msg |-> msg, row |-> r]
Return(r) == [raised |-> FALSE, msg |-> "", row |-> r]

ErrorKeys == <<K_error_before, K_error_after, K_error>>

MustBeString(key) ==
    CASE key = K_error_before -> "error_before must be string"
      [] key = K_error_after -> "error_after must be string"
      [] key = K_error -> "error must be string"

\* The loop over the three error fields, from the n-th on.
RECURSIVE SanitizeFields(_, _)
SanitizeFields(r, n) ==
    IF n > Len(ErrorKeys) THEN Return(r)
    ELSE LET key == ErrorKeys[n]
         IN  IF key \in DOMAIN r /\ r[key] # None
             THEN IF ~IsStr(r[key]) THEN Raise(MustBeString(key), r)
                  ELSE SanitizeFields([r EXCEPT ![key] = JStr(sanitize_error(r[key].s))], n + 1)
             ELSE SanitizeFields(r, n + 1)

IsSha256(s) == Len(s) = Sha256Len /\ \A n \in 1..Len(s) : s[n] \in HexLower

\* A variant whose banned-key check compares the keys as written.
validate_row_exact_case(r, allowed) ==
    IF DOMAIN r \ allowed # {}
    THEN Raise("extra keys not allowed", r)
    ELSE IF DOMAIN r \cap BANNED_KEYS # {}
    THEN Raise("banned keys present", r)
    ELSE IF ~IsStr(Get(r, K_model)) \/ Strip(r[K_model].s) = <<>>
    THEN Raise("model must be non-empty string", r)
    ELSE IF ~IsStr(Get(r, K_sha256)) \/ ~IsSha256(r[K_sha256].s)
    THEN Raise("sha256 must be 64 lowercase hex chars", r)
    ELSE IF ~IsBool(Get(r, K_syntax_valid_before)) \/ ~IsBool(Get(r, K_syntax_valid_after))
    THEN Raise("syntax_valid_before/after must be boolean", r)
    ELSE IF ~IsInt(Get(r, K_fix_count)) \/ IntValue(r[K_fix_count]) < 0
    THEN Raise("fix_count must be non-negative int", r)
    ELSE SanitizeFields(r, 1)


validate_row(r, allowed) ==
    IF DOMAIN r \ allowed # {}
    THEN Raise("extra keys not allowed", r)
    ELSE IF {Lower(key) : key \in DOMAIN r} \cap BANNED_KEYS # {}
    THEN Raise("banned keys present", r)
    ELSE IF ~IsStr(Get(r, K_model)) \/ Strip(r[K_model].s) = <<>>
    THEN Raise("model must be non-empty string", r)
    ELSE IF ~IsStr(Get(r, K_sha256)) \/ ~IsSha256(r[K_sha256].s)
    THEN Raise("sha256 must be 64 lowercase hex chars", r)
    ELSE IF ~IsBool(Get(r, K_syntax_valid_before)) \/ ~IsBool(Get(r, K_syntax_valid_after))
    THEN Raise("syntax_valid_before/after must be boolean", r)
    ELSE IF ~IsInt(Get(r, K_fix_count)) \/ IntValue(r[K_fix_count]) < 0
    THEN Raise("fix_count must be non-negative int", r)
    ELSE SanitizeFields(r, 1)


\* json.loads(line), for a line that is not blank: a line of text either
\* is rejected by the parser or parses to one JSON value.
Blank == [text |-> "blank"]
Garbage == [text |-> "garbage"]
Json(v) == [text |-> "json", value |-> v]

\* An entry that rglob("*.jsonl") yields: a regular file with its lines, or
\* a directory whose name ends in .jsonl.
File(name, lines) == [name |-> name, is_file |-> TRUE, lines |-> lines]
Dir(name) == [name |-> name, is_file |-> FALSE, lines |-> <<>>]

\* The body of the try block of validate.main for one stripped, non-blank
\* line: the exception's message, or "" when nothing is raised.
try_line(line, allowed) ==
    IF line.text # "json" THEN "JSONDecodeError"
    ELSE IF line.value.k # "obj" THEN "row is not object"
    ELSE LET res == validate_row(line.value.row, allowed)
         IN  IF res.raised THEN res.msg ELSE ""

\* A variant that returns the failure count itself.
final_status_count(n) == n

\* The status main returns after the loop.
final_status(n) == IF n # 0 THEN 1 ELSE 0

(***************************************************************************)
(* aggregate.py                                                            *)
(***************************************************************************)
S_EOFLabel == <<"E", "O", "F">>
S_Other == <<"O", "t", "h", "e", "r">>

TopN == 3

\* The rows iter_rows yields for one line of a file.
iter_line(line) ==
    IF line = Blank THEN <<>>
    ELSE IF line.text # "json" THEN <<>>
    ELSE IF line.value.k = "obj" THEN <<line.value.row>>
    ELSE <<>>

err_class(s) ==
    IF s = <<>> THEN <<>>
    ELSE IF Contains(s, S_IndentationError) THEN S_IndentationError
    ELSE IF Contains(s, S_SyntaxError) THEN S_SyntaxError
    ELSE IF Contains(s, S_TabError) THEN S_TabError
    ELSE IF Contains(s, S_EOL) \/ Contains(s, S_EOF) THEN S_EOFLabel
    ELSE S_Other

\* pct(n, d), in tenths of a percent, rounded down; 0 when d is 0.
pct(n, d) == IF d # 0 THEN (1000 * n) \div d ELSE 0

\* Line 66: the group a row belongs to.
model_of(r) == PyStr(Or(Get(r, K_model), JStr(S_unknown)))

\* Lines 64-67: by_model, as the list of its items in insertion order.
RECURSIVE group_rows(_, _)
group_rows(groups, rs) ==
    IF rs = <<>> THEN groups
    ELSE LET m == model_of(Head(rs))
             at == {n \in 1..Len(groups) : groups[n].model = m}
         IN  IF at = {}
             THEN group_rows(Append(groups, [model |-> m, rs |-> <<Head(rs)>>]), Tail(rs))
             ELSE LET n == CHOOSE x \in at : TRUE
                  IN  group_rows([groups EXCEPT ![n].rs = Append(@, Head(rs))], Tail(rs))

\* sorted(items, key=..., reverse=True), keys[n] being the key of items[n]:
\* a stable sort, so that items of equal key keep their order.
RECURSIVE sorted_desc(_, _)
sorted_desc(items, keys) ==
    IF items = <<>> THEN <<>>
    ELSE LET best == CHOOSE n \in 1..Len(items) :
                        /\ \A m \in 1..Len(items) : keys[m] <= keys[n]
                        /\ \A m \in 1..(n - 1) : keys[m] < keys[n]
             drop(q) == [m \in 1..(Len(q) - 1) |-> IF m < best THEN q[m] ELSE q[m + 1]]
         IN  <<items[best]>> \o sorted_desc(drop(items), drop(keys))

\* sum(1 for r in rs if ...), tests[n] telling whether the n-th row counts.
count_rows(tests) == Cardinality({n \in 1..Len(tests) : tests[n]})

before_true(r) == Get(r, K_syntax_valid_before) = JBool(TRUE)
after_true(r) == Get(r, K_syntax_valid_after) = JBool(TRUE)
\* A variant that takes every row not valid before as invalid before.
is_repaired_not_true(r) == ~before_true(r) /\ after_true(r)

is_repaired(r) == Get(r, K_syntax_valid_before) = JBool(FALSE) /\ Get(r, K_syntax_valid_after) = JBool(TRUE)

\* Line 89: int(r.get("fix_count") or 0)
fix_count_of(r) == PyInt(Or(Get(r, K_fix_count), JInt(0)))

RECURSIVE sum_fix(_)
sum_fix(rs) == IF rs = <<>> THEN 0 ELSE fix_count_of(Head(rs)).n + sum_fix(Tail(rs))

\* Line 96: the error text of a row.
error_text(r) == PyStr(Or(Or(Get(r, K_error_before), Get(r, K_error)), JStr(<<>>)))

\* Lines 92-97: the Counter, as the list of its items in insertion order.
RECURSIVE tally(_, _)
tally(errc, rs) ==
    IF rs = <<>> THEN errc
    ELSE IF before_true(Head(rs)) THEN tally(errc, Tail(rs))
    ELSE LET label == err_class(error_text(Head(rs)))
             at == {n \in 1..Len(errc) : errc[n].label = label}
         IN  IF at = {}
             THEN tally(Append(errc, [label |-> label, count |-> 1]), Tail(rs))
             ELSE LET n == CHOOSE x \in at : TRUE
                  IN  tally([errc EXCEPT ![n].count = @ + 1], Tail(rs))

\* Counter.most_common(n)
most_common(errc, n) ==
    LET all == sorted_desc(errc, [m \in 1..Len(errc) |-> errc[m].count])
    IN  SubSeq(all, 1, IF Len(all) < n THEN Len(all) ELSE n)

\* Lines 85-107: the aggregate of one group.
model_stats(rs) ==
    [rows |-> Len(rs),
     syntaxValidBefore |-> count_rows([n \in 1..Len(rs) |-> before_true(rs[n])]),
     syntaxValidAfter |-> count_rows([n \in 1..Len(rs) |-> after_true(rs[n])]),
     repaired |-> count_rows([n \in 1..Len(rs) |-> is_repaired(rs[n])]),
     avgFixCount |-> [sum |-> sum_fix(rs), n |-> Len(rs)],
     topErrorClassesBefore |-> tally(<<>>, rs)]

\* Lines 98, 109-111: the table row of one group.
md_row(model, rs) ==
    [model |-> model,
     total |-> Len(rs),
     before |-> pct(count_rows([n \in 1..Len(rs) |-> before_true(rs[n])]), Len(rs)),
     after |-> pct(count_rows([n \in 1..Len(rs) |-> after_true(rs[n])]), Len(rs)),
     repaired |-> pct(count_rows([n \in 1..Len(rs) |-> is_repaired(rs[n])]), Len(rs)),
     avg_fix |-> [sum |-> sum_fix(rs), n |-> Len(rs)],
     top_err |-> most_common(tally(<<>>, rs), TopN)]

\* What one line adds to the output: the FAIL line, if the try block raises.
fail_report(name, n, line, allowed) ==
    IF line = Blank \/ try_line(line, allowed) = "" THEN <<>>
    ELSE <<[kind |-> "FAIL", file |-> name, line |-> n, msg |-> try_line(line, allowed)]>>

VARIABLES
    san,            \* sanitize_error: the input and the successive results
    row, allowed_arg,   \* validate_row: the arguments
    outcome,        \* validate_row: what the call did
    root_exists,    \* validate.main: root.exists()
    tree,           \* validate.main: what root.rglob("*.jsonl") yields
    allowed_keys,   \* validate.main: the key set of schema.json
    jsonl_files,    \* validate.main: the files to check
    p, i,           \* validate.main: current file and line number
    bad,            \* validate.main: failure counter
    stdout,         \* validate.main: what was printed
    status,         \* validate.main: the exit status
    vpc,            \* validate.main: position
    results,        \* aggregate: what RESULTS.rglob("*.jsonl") yields
    fp, ln,         \* aggregate.iter_rows: current entry and line
    rows,           \* aggregate.main: the rows read
    by_model,       \* aggregate.main: the groups, in insertion order
    midx,           \* aggregate.main: position in the sorted groups
    summary,        \* aggregate.main: the summary document
    md_lines,       \* aggregate.main: the table rows of the text report
    public,         \* aggregate.main: the files written
    astatus,        \* aggregate.main: the exit status
    apc             \* aggregate.main: position

sanVars == <<san>>
rowVars == <<row, allowed_arg, outcome>>
valVars == <<root_exists, tree, allowed_keys, jsonl_files, p, i, bad, stdout, status, vpc>>
aggVars == <<results, fp, ln, rows, by_model, midx, summary, md_lines, public, astatus, apc>>
vars == <<sanVars, rowVars, valVars, aggVars>>

SanIdle == san = <<>>
RowIdle == row = <<>> /\ allowed_arg = {} /\ outcome = <<>>
ValIdle ==
    /\ root_exists = FALSE /\ tree = <<>> /\ allowed_keys = {} /\ jsonl_files = <<>>
    /\ p = 0 /\ i = 0 /\ bad = 0 /\ stdout = <<>> /\ status = -1 /\ vpc = "idle"

AggIdle ==
    /\ results = <<>> /\ fp = 0 /\ ln = 0 /\ rows = <<>> /\ by_model = <<>> /\ midx = 0
    /\ summary = [totalRows |-> 0, models |-> <<>>] /\ md_lines = <<>>
    /\ public = [written |-> FALSE] /\ astatus = -1 /\ apc = "idle"

(***************************************************************************)
(* sanitize_error applied repeatedly to one string.                        *)
(***************************************************************************)
SanAlphabet == {"/", "a", " ", ":"}

SanInputs ==
    SeqsUpTo(SanAlphabet, MaxStrLen)
    \cup {Fill("a", n) \o t : n \in {MaxErrorLen - 1, MaxErrorLen}, t \in SeqsUpTo({"/", "a"}, 2)}

SanInit == san \in {<<s>> : s \in SanInputs} /\ RowIdle /\ ValIdle /\ AggIdle

Sanitize ==
    /\ san # <<>>
    /\ Len(san) <= MaxPasses
    /\ san' = Append(san, sanitize_error(san[Len(san)]))
    /\ UNCHANGED <<rowVars, valVars, aggVars>>

SanNext == Sanitize
SpecSan == SanInit /\ [][SanNext]_vars

(***************************************************************************)
(* validate_row applied to one record under one allow-list.                *)
(***************************************************************************)
\* The field names of the record format (spec.md, Data Model); schema.json
\* itself is configuration outside the scripts.
SchemaKeys ==
    {K_model, K_sha256, K_syntax_valid_before, K_syntax_valid_after, K_fix_count,
     K_error_before, K_error_after, K_error}

AllowedSets == {SchemaKeys, SchemaKeys \cup {K_code, K_Code}, SchemaKeys \cup {K_extra_field}}

\* Marks a field the record does not have.
Absent == [k |-> "absent"]

\* The record with the given fields, without the absent ones.
MakeRow(fields) ==
    LET keys == {key \in DOMAIN fields : fields[key] # Absent}
    IN  [key \in keys |-> fields[key]]

GoodSha == Fill("a", Sha256Len)
S_m == <<"m">>
S_abc123 == <<"a", "b", "c", "1", "2", "3">>
S_leak == <<"a", "t", " ", "/", "u", "/", "f", ":", "1">>

ModelValues == {Absent, JStr(S_m), JStr(<<>>), JStr(<<" ">>), JInt(1)}
ShaValues == {Absent, JStr(GoodSha), JStr(S_abc123), JStr(Fill("A", Sha256Len)), JStr(Fill("a", Sha256Len + 1))}
BeforeValues == {Absent, JBool(TRUE), JBool(FALSE), JInt(1)}
AfterValues == {JBool(TRUE), None, JStr(S_True)}
FixValues == {Absent, None, JInt(0), JInt(3), JInt(-1), JBool(TRUE), JFloat(10), JStr(<<"1">>)}

\* A further key of the record, with its value.
MoreFields ==
    {<<K_code, Absent>>, <<K_code, JStr(S_m)>>, <<K_Code, JStr(S_m)>>, <<K_extra_field, JInt(1)>>,
     <<K_error_before, JStr(S_leak)>>, <<K_error, JInt(1)>>}

RowInputs ==
    {MakeRow([key \in SchemaKeys \cup {more[1]} |->
                CASE key = more[1] -> more[2]
                  [] key = K_model /\ key # more[1] -> m
                  [] key = K_sha256 /\ key # more[1] -> h
                  [] key = K_syntax_valid_before /\ key # more[1] -> b
                  [] key = K_syntax_valid_after /\ key # more[1] -> a
                  [] key = K_fix_count /\ key # more[1] -> f
                  [] OTHER -> Absent]) :
        m \in ModelValues, h \in ShaValues, b \in BeforeValues, a \in AfterValues,
        f \in FixValues, more \in MoreFields}

RowInit ==
    /\ row \in RowInputs
    /\ allowed_arg \in AllowedSets
    /\ outcome = <<>>
    /\ SanIdle /\ ValIdle /\ AggIdle

ValidateRow ==
    /\ row # <<>> \/ allowed_arg # {}
    /\ outcome = <<>>
    /\ outcome' = <<validate_row(row, allowed_arg)>>
    /\ UNCHANGED <<row, allowed_arg, sanVars, valVars, aggVars>>

RowNext == ValidateRow
SpecRow == RowInit /\ [][RowNext]_vars

(***************************************************************************)
(* validate.main over a results tree.                                      *)
(***************************************************************************)
FileNames == <<"a.jsonl", "sub/b.jsonl">>

GoodRow ==
    MakeRow([key \in SchemaKeys |->
                CASE key = K_model -> JStr(S_m)
                  [] key = K_sha256 -> JStr(GoodSha)
                  [] key = K_syntax_valid_before -> JBool(FALSE)
                  [] key = K_syntax_valid_after -> JBool(TRUE)
                  [] key = K_fix_count -> JInt(3)
                  [] key = K_error_before -> JStr(S_leak)
                  [] OTHER -> Absent])

ExtraRow == [key \in DOMAIN GoodRow \cup {K_extra_field} |-> IF key = K_extra_field THEN JInt(1) ELSE GoodRow[key]]

ValLines == {Blank, Garbage, Json(JInt(5)), Json(JObj(GoodRow)), Json(JObj(ExtraRow))}

\* The entries rglob yields, in its order: nothing, one or two entries, each
\* a file ("f") or a directory ("d"); the lines ls go to the files, the
\* first file taking the first c of them.
TreeShapes == {"", "f", "d", "ff", "fd", "df", "dd"}

Tree(shape, ls, c) ==
    CASE shape = "" -> <<>>
      [] shape = "f" -> <<File(FileNames[1], ls)>>
      [] shape = "d" -> <<Dir(FileNames[1])>>
      [] shape = "ff" -> <<File(FileNames[1], SubSeq(ls, 1, c)), File(FileNames[2], SubSeq(ls, c + 1, Len(ls)))>>
      [] shape = "fd" -> <<File(FileNames[1], ls), Dir(FileNames[2])>>
      [] shape = "df" -> <<Dir(FileNames[1]), File(FileNames[2], ls)>>
      [] shape = "dd" -> <<Dir(FileNames[1]), Dir(FileNames[2])>>

\* t is a tree of at most maxLines lines drawn from lineSet.
InTrees(t, lineSet, maxLines) ==
    \E n \in 0..maxLines : \E ls \in [1..n -> lineSet] : \E c \in 0..n : \E shape \in TreeShapes :
        /\ shape \in {"", "d", "dd"} => n = 0
        /\ shape \in {"f", "fd"} => c = n
        /\ shape = "df" => c = 0
        /\ t = Tree(shape, ls, c)

ValInit ==
    /\ root_exists \in BOOLEAN
    /\ IF root_exists THEN InTrees(tree, ValLines, MaxLines) ELSE tree = <<>>
    /\ allowed_keys = SchemaKeys
    /\ jsonl_files = <<>>
    /\ p = 0 /\ i = 0 /\ bad = 0
    /\ stdout = <<>>
    /\ status = -1
    /\ vpc = "start"
    /\ SanIdle /\ RowIdle /\ AggIdle

\* Lines 86-89: the root does not exist.
MissingRoot ==
    /\ vpc = "start"
    /\ ~root_exists
    /\ status' = 2
    /\ vpc' = "exit"
    /\ UNCHANGED <<root_exists, tree, allowed_keys, jsonl_files, p, i, bad, stdout, sanVars, rowVars, aggVars>>

is_file(e) == e.is_file

\* Lines 94-97: no .jsonl file under the root.
NoFiles ==
    /\ vpc = "start"
    /\ root_exists
    /\ SelectSeq(tree, is_file) = <<>>
    /\ stdout' = Append(stdout, [kind |-> "No .jsonl files found (ok)"])
    /\ status' = 0
    /\ vpc' = "exit"
    /\ UNCHANGED <<root_exists, tree, allowed_keys, jsonl_files, p, i, bad, sanVars, rowVars, aggVars>>

\* Lines 94-100: collect the files and enter the loop.
BeginLoop ==
    /\ vpc = "start"
    /\ root_exists
    /\ SelectSeq(tree, is_file) # <<>>
    /\ jsonl_files' = SelectSeq(tree, is_file)
    /\ bad' = 0
    /\ p' = 1
    /\ i' = 0
    /\ vpc' = "loop"
    /\ UNCHANGED <<root_exists, tree, allowed_keys, stdout, status, sanVars, rowVars, aggVars>>

\* A variant that leaves the file at its first failing line.
CheckLineBreaks ==
    /\ vpc = "loop"
    /\ i < Len(jsonl_files[p].lines)
    /\ i' = IF fail_report(jsonl_files[p].name, i + 1, jsonl_files[p].lines[i + 1], allowed_keys) = <<>>
            THEN i + 1 ELSE Len(jsonl_files[p].lines)
    /\ stdout' = stdout \o fail_report(jsonl_files[p].name, i + 1, jsonl_files[p].lines[i + 1], allowed_keys)
    /\ bad' = bad + Len(fail_report(jsonl_files[p].name, i + 1, jsonl_files[p].lines[i + 1], allowed_keys))
    /\ UNCHANGED <<root_exists, tree, allowed_keys, jsonl_files, p, status, vpc, sanVars, rowVars, aggVars>>

\* Lines 103-114: the next line of the current file.
CheckLine ==
    /\ vpc = "loop"
    /\ i < Len(jsonl_files[p].lines)
    /\ i' = i + 1
    /\ stdout' = stdout \o fail_report(jsonl_files[p].name, i + 1, jsonl_files[p].lines[i + 1], allowed_keys)
    /\ bad' = bad + Len(fail_report(jsonl_files[p].name, i + 1, jsonl_files[p].lines[i + 1], allowed_keys))
    /\ UNCHANGED <<root_exists, tree, allowed_keys, jsonl_files, p, status, vpc, sanVars, rowVars, aggVars>>

\* Line 100: the current file is exhausted, go on to the next one.
NextFile ==
    /\ vpc = "loop"
    /\ i = Len(jsonl_files[p].lines)
    /\ p < Len(jsonl_files)
    /\ p' = p + 1
    /\ i' = 0
    /\ UNCHANGED <<root_exists, tree, allowed_keys, jsonl_files, bad, stdout, status, vpc, sanVars, rowVars, aggVars>>

\* Lines 116-121: after the last file.
Finish ==
    /\ vpc = "loop"
    /\ i = Len(jsonl_files[p].lines)
    /\ p = Len(jsonl_files)
    /\ stdout' = Append(stdout, IF bad # 0 THEN [kind |-> "Validation failed", n |-> bad]
                                ELSE [kind |-> "Validation ok", n |-> Len(jsonl_files)])
    /\ status' = final_status(bad)
    /\ vpc' = "exit"
    /\ UNCHANGED <<root_exists, tree, allowed_keys, jsonl_files, p, i, bad, sanVars, rowVars, aggVars>>

ValNext == MissingRoot \/ NoFiles \/ BeginLoop \/ CheckLine \/ NextFile \/ Finish
SpecValidate == ValInit /\ [][ValNext]_vars

(***************************************************************************)
(* aggregate.main over a results tree.                                     *)
(***************************************************************************)
S_abc == <<"a", "b", "c">>
S_both == S_SyntaxError \o <<":", " ">> \o S_IndentationError

\* Rows that differ in the group and in the two flags.
FlagRows ==
    {MakeRow([key \in SchemaKeys |->
                CASE key = K_model -> m
                  [] key = K_syntax_valid_before -> b
                  [] key = K_syntax_valid_after -> a
                  [] key = K_fix_count -> JInt(3)
                  [] OTHER -> Absent]) :
        m \in {Absent, JStr(S_m)}, b \in {JBool(TRUE), JBool(FALSE), JInt(1)},
        a \in {JBool(TRUE), JBool(FALSE), None}}

\* Rows that differ in fix_count.
FixRows ==
    {MakeRow([key \in SchemaKeys |->
                CASE key = K_model -> JStr(S_m)
                  [] key = K_syntax_valid_before -> JBool(TRUE)
                  [] key = K_syntax_valid_after -> JBool(TRUE)
                  [] key = K_fix_count -> f
                  [] OTHER -> Absent]) :
        f \in {JStr(S_abc), JStr(<<"3">>), JFloat(15), JArr(<<JInt(1)>>)}}

\* Rows of one group, invalid before, that differ in the error text.
ErrRows ==
    {MakeRow([key \in SchemaKeys |->
                CASE key = K_model -> JStr(S_m)
                  [] key = K_syntax_valid_before -> JBool(FALSE)
                  [] key = K_syntax_valid_after -> JBool(FALSE)
                  [] key = K_error_before -> e[1]
                  [] key = K_error -> e[2]
                  [] OTHER -> Absent]) :
        e \in {<<Absent, Absent>>, <<JStr(S_both), Absent>>, <<JStr(<<>>), JStr(S_SyntaxError)>>,
               <<JStr(S_TabError), JStr(S_SyntaxError)>>, <<JStr(S_EOL), Absent>>,
               <<None, JStr(S_EOF)>>, <<JStr(S_abc), Absent>>}}

AggLines == {Blank, Garbage, Json(JInt(5))} \cup {Json(JObj(r)) : r \in FlagRows \cup FixRows}
ErrLines == {Json(JObj(r)) : r \in ErrRows}

AggInit ==
    /\ \/ InTrees(results, AggLines, MaxAggLines)
       \/ \E n \in 0..MaxErrLines : \E ls \in [1..n -> ErrLines] : results = <<File(FileNames[1], ls)>>
    /\ fp = 1 /\ ln = 0
    /\ rows = <<>>
    /\ by_model = <<>>
    /\ midx = 0
    /\ summary = [totalRows |-> 0, models |-> <<>>]
    /\ md_lines = <<>>
    /\ public = [written |-> FALSE]
    /\ astatus = -1
    /\ apc = "read"
    /\ SanIdle /\ RowIdle /\ ValIdle

\* A variant in which a line that yields no row ends the file.
ReadLineBreaks ==
    /\ apc = "read"
    /\ fp <= Len(results)
    /\ results[fp].is_file
    /\ ln < Len(results[fp].lines)
    /\ ln' = IF results[fp].lines[ln + 1] # Blank /\ iter_line(results[fp].lines[ln + 1]) = <<>>
             THEN Len(results[fp].lines) ELSE ln + 1
    /\ rows' = rows \o iter_line(results[fp].lines[ln + 1])
    /\ UNCHANGED <<results, fp, by_model, midx, summary, md_lines, public, astatus, apc, sanVars, rowVars, valVars>>

\* iter_rows, lines 31-40: the next line of the current file.
ReadLine ==
    /\ apc = "read"
    /\ fp <= Len(results)
    /\ results[fp].is_file
    /\ ln < Len(results[fp].lines)
    /\ ln' = ln + 1
    /\ rows' = rows \o iter_line(results[fp].lines[ln + 1])
    /\ UNCHANGED <<results, fp, by_model, midx, summary, md_lines, public, astatus, apc, sanVars, rowVars, valVars>>

\* iter_rows, lines 27-29: an entry that is not a file, or the end of a file.
NextEntry ==
    /\ apc = "read"
    /\ fp <= Len(results)
    /\ ~results[fp].is_file \/ ln = Len(results[fp].lines)
    /\ fp' = fp + 1
    /\ ln' = 0
    /\ UNCHANGED <<results, rows, by_model, midx, summary, md_lines, public, astatus, apc, sanVars, rowVars, valVars>>

\* The groups in the order of the loop of line 84.
sorted_groups(groups) == sorted_desc(groups, [n \in 1..Len(groups) |-> Len(groups[n].rs)])

\* Lines 62-82: all rows are read; group them and start the summary.
GroupRows ==
    /\ apc = "read"
    /\ fp > Len(results)
    /\ by_model' = group_rows(<<>>, rows)
    /\ summary' = [totalRows |-> Len(rows), models |-> <<>>]
    /\ midx' = 1
    /\ apc' = "stats"
    /\ UNCHANGED <<results, fp, ln, rows, md_lines, public, astatus, sanVars, rowVars, valVars>>

\* Whether line 89 raises for some row of the group.
fix_raises(rs) == \E n \in 1..Len(rs) : fix_count_of(rs[n]).raised

\* Lines 84-111: one iteration of the loop over the groups.
ModelStats ==
    /\ apc = "stats"
    /\ midx <= Len(by_model)
    /\ LET g == sorted_groups(by_model)[midx]
       IN  /\ ~fix_raises(g.rs)
           /\ summary' = [summary EXCEPT !.models = Append(@, [model |-> g.model, stats |-> model_stats(g.rs)])]
           /\ md_lines' = Append(md_lines, md_row(g.model, g.rs))
    /\ midx' = midx + 1
    /\ UNCHANGED <<results, fp, ln, rows, by_model, public, astatus, apc, sanVars, rowVars, valVars>>

\* Line 89: int() raises, nothing catches it, the interpreter exits with 1.
ModelStatsRaises ==
    /\ apc = "stats"
    /\ midx <= Len(by_model)
    /\ fix_raises(sorted_groups(by_model)[midx].rs)
    /\ astatus' = 1
    /\ apc' = "crashed"
    /\ UNCHANGED <<results, fp, ln, rows, by_model, midx, summary, md_lines, public, sanVars, rowVars, valVars>>

\* Lines 118-127: the table rows of the HTML page.
html_rows(models) ==
    [n \in 1..Len(models) |->
        [model |-> models[n].model,
         rows |-> models[n].stats.rows,
         before |-> pct(models[n].stats.syntaxValidBefore, models[n].stats.rows),
         after |-> pct(models[n].stats.syntaxValidAfter, models[n].stats.rows),
         repaired |-> pct(models[n].stats.repaired, models[n].stats.rows),
         avg_fix |-> models[n].stats.avgFixCount]]

\* Lines 113-179: write the three files and return 0.
WriteOutputs ==
    /\ apc = "stats"
    /\ midx > Len(by_model)
    /\ public' = [written |-> TRUE, summary_json |-> summary, summary_md |-> md_lines,
                  index_html |-> html_rows(summary.models)]
    /\ astatus' = 0
    /\ apc' = "exit"
    /\ UNCHANGED <<results, fp, ln, rows, by_model, midx, summary, md_lines, sanVars, rowVars, valVars>>

AggNext == ReadLine \/ NextEntry \/ GroupRows \/ ModelStats \/ ModelStatsRaises \/ WriteOutputs
SpecAggregate == AggInit /\ [][AggNext]_vars

(***************************************************************************)
(* Properties.                                                             *)
(***************************************************************************)

\* C1: the aggregator always succeeds: whatever the records hold, main
\* never aborts, and when it stops it has written its outputs and returned 0.
C1_AlwaysSucceeds ==
    /\ apc # "crashed"
    /\ apc = "exit" => astatus = 0 /\ public.written

\* Whether a line of a file fails the validator's checks: it does not parse,
\* it parses to a value that is not an object, or validate_row rejects it.
LineFails(line) ==
    \/ line.text # "json"
    \/ line.value.k # "obj"
    \/ validate_row(line.value.row, allowed_keys).raised

\* The positions <<entry, line number>> of the non-blank failing lines.
FailingLines ==
    UNION {{<<n, l>> : l \in {q \in 1..Len(tree[n].lines) :
                                /\ tree[n].is_file
                                /\ tree[n].lines[q] # Blank
                                /\ LineFails(tree[n].lines[q])}} :
           n \in 1..Len(tree)}

\* C2: the validator exits with 2 if the root does not exist, else with 0 if
\* there is no .jsonl file, else with 1 if some non-blank line fails a check,
\* else with 0.
C2_ExitStatus ==
    vpc = "exit" =>
        status = IF ~root_exists THEN 2
                 ELSE IF \A n \in 1..Len(tree) : ~tree[n].is_file THEN 0
                 ELSE IF FailingLines # {} THEN 1
                 ELSE 0

\* C2 witness: a run over two files that ends with status 1 because of a
\* line that is not an object, after a line that passes.
C2_Witness ==
    /\ vpc = "exit" /\ status = 1 /\ Len(jsonl_files) = 2
    /\ \E x \in FailingLines : tree[x[1]].lines[x[2]] = Json(JInt(5))
    /\ \E n \in 1..Len(tree) : Len(tree[n].lines) >= 1 /\ tree[n].lines[1] = Json(JObj(GoodRow))

\* Two key names that differ at most in the case of their letters.
EqualIgnoringCase(a, b) ==
    /\ Len(a) = Len(b)
    /\ \A n \in 1..Len(a) :
          \/ a[n] = b[n]
          \/ \E c \in 1..Len(UpperCase) : {a[n], b[n]} = {UpperCase[c], LowerCase[c]}

\* C3: whatever the allow-list, validate_row rejects a record one of whose
\* keys is, case-insensitively, a banned key.
C3_BannedRejected ==
    outcome # <<>> =>
        ((\E key \in DOMAIN row : \E b \in BANNED_KEYS : EqualIgnoringCase(key, b))
            => outcome[1].raised)

\* C3 witness: a record with the key "Code", which the allow-list permits,
\* was rejected by the banned-key check.
C3_Witness ==
    /\ outcome # <<>>
    /\ K_Code \in DOMAIN row /\ DOMAIN row \subseteq allowed_arg
    /\ outcome[1].raised /\ outcome[1].msg = "banned keys present"

\* C4: sanitize_error is idempotent: the second application returns what the
\* first returned.
C4_Idempotent == Len(san) >= 3 => san[3] = san[2]

\* C5: a record with only allow-listed, unbanned keys and no error field is
\* accepted exactly when model is a non-empty string, sha256 is 64 lowercase
\* hexadecimal characters, both flags are booleans and fix_count is an
\* integer >= 0 (a boolean, string, float, null or missing value is not).
C5_FieldShapes ==
    (/\ outcome # <<>>
     /\ DOMAIN row \subseteq allowed_arg
     /\ ~\E key \in DOMAIN row : \E b \in BANNED_KEYS : EqualIgnoringCase(key, b)
     /\ DOMAIN row \cap {K_error_before, K_error_after, K_error} = {})
    => (~outcome[1].raised <=>
            /\ Get(row, K_model).k = "str" /\ Get(row, K_model).s # <<>>
            /\ Get(row, K_sha256).k = "str" /\ IsSha256(Get(row, K_sha256).s)
            /\ Get(row, K_syntax_valid_before).k = "bool"
            /\ Get(row, K_syntax_valid_after).k = "bool"
            /\ Get(row, K_fix_count).k = "int" /\ Get(row, K_fix_count).n >= 0)

\* The non-blank failing lines of the files from the n-th entry on, in the
\* order of the files and of their lines, as <<file name, line number>>.
RECURSIVE ExpectedFails(_, _)
ExpectedFails(n, l) ==
    IF n > Len(tree) THEN <<>>
    ELSE IF ~tree[n].is_file \/ l > Len(tree[n].lines) THEN ExpectedFails(n + 1, 1)
    ELSE (IF <<n, l>> \in FailingLines THEN <<<<tree[n].name, l>>>> ELSE <<>>)
         \o ExpectedFails(n, l + 1)

\* The FAIL lines of the output, as <<file name, line number>>.
ReportedFails ==
    LET fails == SelectSeq(stdout, LAMBDA e : e.kind = "FAIL")
    IN  [n \in 1..Len(fails) |-> <<fails[n].file, fails[n].line>>]

C7_EmptyLabelExcluded ==
    /\ \A n \in 1..Len(summary.models) :
          \A e \in 1..Len(summary.models[n].stats.topErrorClassesBefore) :
              summary.models[n].stats.topErrorClassesBefore[e].label # <<>>
    /\ \A n \in 1..Len(md_lines) :
          \A e \in 1..Len(md_lines[n].top_err) : md_lines[n].top_err[e].label # <<>>

\* The rows of the group named m, as positions in rows.
GroupOf(m) == {n \in 1..Len(rows) : model_of(rows[n]) = m}

\* The label of the n-th row, for the rows that are ranked.
LabelOf(n) == err_class(error_text(rows[n]))
Ranked(m) == {n \in GroupOf(m) : Get(rows[n], K_syntax_valid_before) # JBool(TRUE)}
LabelCount(m, label) == Cardinality({n \in Ranked(m) : LabelOf(n) = label})
FirstSeen(m, label) == CHOOSE n \in Ranked(m) : LabelOf(n) = label /\ \A q \in Ranked(m) : LabelOf(q) = label => n <= q

\* The labels of group m that fewer than TopN labels precede, a label
\* preceding another if it has a greater count, or the same count and an
\* earlier first row; each with its count.
TopLabels(m) ==
    LET labels == {LabelOf(n) : n \in Ranked(m)}
        precedes(a, b) == \/ LabelCount(m, a) > LabelCount(m, b)
                          \/ LabelCount(m, a) = LabelCount(m, b) /\ FirstSeen(m, a) < FirstSeen(m, b)
    IN  {<<b, LabelCount(m, b)>> : b \in {x \in labels : Cardinality({a \in labels : precedes(a, x)}) < TopN}}

\* C8: the error-category counts kept for a group, in the summary document
\* and in the text report, are those of its top 3 labels, never more than 3.
C8_TopThreeRetained ==
    public.written =>
        /\ \A n \in 1..Len(public.summary_json.models) :
              LET kept == public.summary_json.models[n].stats.topErrorClassesBefore
              IN  /\ Len(kept) <= TopN
                  /\ {<<kept[e].label, kept[e].count>> : e \in 1..Len(kept)} = TopLabels(public.summary_json.models[n].model)
        /\ \A n \in 1..Len(public.summary_md) :
              LET kept == public.summary_md[n].top_err
              IN  /\ Len(kept) <= TopN
                  /\ {<<kept[e].label, kept[e].count>> : e \in 1..Len(kept)} = TopLabels(public.summary_md[n].model)

\* C9: for every group of the summary, repaired is at most the number of its
\* rows whose syntax_valid_before is exactly false, and at most its
\* syntaxValidAfter, the number whose syntax_valid_after is exactly true.
C9_RepairedBounds ==
    \A n \in 1..Len(summary.models) :
        LET g == summary.models[n]
        IN  /\ g.stats.repaired <= Cardinality({q \in GroupOf(g.model) : Get(rows[q], K_syntax_valid_before) = JBool(FALSE)})
            /\ g.stats.syntaxValidAfter = Cardinality({q \in GroupOf(g.model) : Get(rows[q], K_syntax_valid_after) = JBool(TRUE)})
            /\ g.stats.repaired <= g.stats.syntaxValidAfter

\* C9 witness: a written summary with a group that has a repaired row and a
\* row, valid after, whose syntax_valid_before is not a boolean.
C9_Witness ==
    /\ public.written
    /\ \E n \in 1..Len(summary.models) :
          /\ summary.models[n].stats.repaired >= 1
          /\ \E q \in GroupOf(summary.models[n].model) :
                /\ Get(rows[q], K_syntax_valid_before).k # "bool"
                /\ Get(rows[q], K_syntax_valid_after) = JBool(TRUE)

\* The lines of the tree that parse to a JSON object, as <<entry, line>>.
ObjectLines ==
    UNION {{<<n, l>> : l \in {q \in 1..Len(results[n].lines) :
                                /\ results[n].is_file
                                /\ results[n].lines[q].text = "json"
                                /\ results[n].lines[q].value.k = "obj"}} :
           n \in 1..Len(results)}

\* C10: totalRows is the number of lines, over all files, that parse to a
\* JSON object; other lines add nothing and hide no later line.
C10_TotalRows ==
    /\ apc \in {"stats", "exit", "crashed"} => summary.totalRows = Cardinality(ObjectLines)
    /\ public.written => public.summary_json.totalRows = Cardinality(ObjectLines)

\* C10 witness: a written summary that counts an object line which follows
\* an unparseable line in the same file.
C10_Witness ==
    /\ public.written /\ public.summary_json.totalRows >= 1
    /\ \E x \in ObjectLines : x[2] > 1 /\ results[x[1]].lines[x[2] - 1] = Garbage

====
